---- MODULE Spec2Model ----
(***************************************************************************)
(* Organisations service: the request router (api/routes/organisations.py) *)
(* delegating to the repository layer                                      *)
(* (infrastructure/organisations_repository.py) over two tables,           *)
(* organisation and location.                                              *)
(***************************************************************************)
EXTENDS Integers, Sequences, FiniteSets, TLC

\* ------------------------------------------------------------------ bounds
\* Number of create-organisation calls explored.
MaxOrganisations == 2
\* Number of create-location calls explored.
MaxLocations == 2

\* Request inputs, drawn from small sets.
Names == {"organisation_a", "organisation_b"}
LocationNames == {"Location 1", "Location 2"}
\* coordinates of the locations clients create: the origin lies on all four
\* bounds of the box <<0,0,0,0>>; each of the other two lies outside it by
\* one bound and outside <<1,1,1,1>> by another
Points ==
    { [longitude |-> 0, latitude |-> 0],
      [longitude |-> 1, latitude |-> 0],
      [longitude |-> 0, latitude |-> 1] }
\* organisation ids used in path parameters and in create-location bodies
PathIds == {1, 2, 3}
BodyIds == {1, 2}

\* ------------------------------------------------------------- Optional[T]
None == [present |-> FALSE]
Some(v) == [present |-> TRUE, value |-> v]

\* bounding boxes (min_lat, min_lon, max_lat, max_lon) sent by clients
Boxes ==
    { <<0, 0, 0, 0>>, <<1, 1, 1, 1>>, <<0, 0, 1, 1>>, <<0, 1, 0, 1>> }
BoundingBoxes == {None} \cup {Some(b) : b \in Boxes}

\* ------------------------------------------------------------------- state
VARIABLES
    organisation,   \* table organisation: rows [id, name], in insertion order
    location,       \* table location: rows [id, organisation_id, location_name, longitude, latitude]
    response,       \* the last HTTP response, with the request it answers
    created,        \* client log: one [name, id] per create-organisation call
    located         \* client log: one record per create-location call

vars == <<organisation, location, response, created, located>>

\* --------------------------------------------------------- store primitives
RECURSIVE MaxId(_)
MaxId(table) ==
    IF table = <<>> THEN 0
    ELSE LET m == MaxId(Tail(table)) IN
         IF Head(table).id > m THEN Head(table).id ELSE m

\* the identifier the store generates for the next inserted row
NextId(table) == MaxId(table) + 1

\* mutant: truthiness taken over the components (any(bounding_box))
Truthy_AnyComponent(bounding_box) ==
    /\ bounding_box.present
    /\ \E i \in DOMAIN bounding_box.value : bounding_box.value[i] # 0

\* Python truthiness of an Optional[Tuple]: None and the empty tuple are falsy
Truthy(bounding_box) == bounding_box.present /\ Len(bounding_box.value) # 0

\* -------------------------------------------------------- repository layer
\* mutant: get-or-create, an existing row of the same name is returned
organisations_repository_create_organisation_GetOrCreate(name, table) ==
    IF \E i \in DOMAIN table : table[i].name = name
    THEN [table |-> table,
          entity |-> table[CHOOSE i \in DOMAIN table : table[i].name = name]]
    ELSE LET row == [id |-> NextId(table), name |-> name] IN
         [table |-> Append(table, row), entity |-> row]

\* session.add; session.commit; session.refresh: the new table and the
\* refreshed entity
organisations_repository_create_organisation(name, table) ==
    LET row == [id |-> NextId(table), name |-> name] IN
    [table |-> Append(table, row), entity |-> row]

\* mutant: .first() in place of .all()
organisations_repository_get_organisations_First(table) ==
    IF table = <<>> THEN <<>> ELSE <<Head(table)>>

organisations_repository_get_organisations(table) == table

\* mutant: the first row of the table, whatever its id
organisations_repository_get_organisation_by_id_First(organisation_id, table) ==
    IF table = <<>> THEN None ELSE Some(Head(table))

organisations_repository_get_organisation_by_id(organisation_id, table) ==
    IF \E i \in DOMAIN table : table[i].id = organisation_id
    THEN Some(table[CHOOSE i \in DOMAIN table : table[i].id = organisation_id])
    ELSE None

\* mutant: longitude and latitude stored swapped
organisations_repository_create_location_Swapped(organisation_id, location_name, longitude, latitude, table) ==
    LET row == [id |-> NextId(table),
                organisation_id |-> organisation_id,
                location_name |-> location_name,
                longitude |-> latitude,
                latitude |-> longitude] IN
    [table |-> Append(table, row), entity |-> row]

\* mutant: upsert, a row of the same organisation and name is overwritten
organisations_repository_create_location_Upsert(organisation_id, location_name, longitude, latitude, table) ==
    LET same(i) == /\ table[i].organisation_id = organisation_id
                   /\ table[i].location_name = location_name IN
    IF \E i \in DOMAIN table : same(i)
    THEN LET k == CHOOSE i \in DOMAIN table : same(i)
             row == [table[k] EXCEPT !.longitude = longitude, !.latitude = latitude] IN
         [table |-> [table EXCEPT ![k] = row], entity |-> row]
    ELSE LET row == [id |-> NextId(table),
                     organisation_id |-> organisation_id,
                     location_name |-> location_name,
                     longitude |-> longitude,
                     latitude |-> latitude] IN
         [table |-> Append(table, row), entity |-> row]

organisations_repository_create_location(organisation_id, location_name, longitude, latitude, table) ==
    LET row == [id |-> NextId(table),
                organisation_id |-> organisation_id,
                location_name |-> location_name,
                longitude |-> longitude,
                latitude |-> latitude] IN
    [table |-> Append(table, row), entity |-> row]

\* the where-clauses of the query
InBoundingBox(row, bounding_box) ==
    LET min_lat == bounding_box[1]
        min_lon == bounding_box[2]
        max_lat == bounding_box[3]
        max_lon == bounding_box[4] IN
    /\ row.latitude >= min_lat
    /\ row.latitude <= max_lat
    /\ row.longitude >= min_lon
    /\ row.longitude <= max_lon

\* mutant: the whole row is returned, unprojected
LocationDict_WholeRow(row) == row

\* the projection to the response dict
LocationDict(row) ==
    [location_name |-> row.location_name,
     location_longitude |-> row.longitude,
     location_latitude |-> row.latitude]

\* mutant: the organisation_id where-clause is missing
organisations_repository_get_locations_by_organisation_id_AllOrganisations(organisation_id, bounding_box, table) ==
    LET query(row) == Truthy(bounding_box) => InBoundingBox(row, bounding_box.value)
        locations == SelectSeq(table, query) IN
    [i \in DOMAIN locations |-> LocationDict(locations[i])]

organisations_repository_get_locations_by_organisation_id(organisation_id, bounding_box, table) ==
    LET query(row) ==
            /\ row.organisation_id = organisation_id
            /\ (Truthy(bounding_box) => InBoundingBox(row, bounding_box.value))
        locations == SelectSeq(table, query) IN
    [i \in DOMAIN locations |-> LocationDict(locations[i])]

\* ---------------------------------------------------------------- API layer
Response(op, status_code, request, body) ==
    [op |-> op, status_code |-> status_code, request |-> request, body |-> body]

create_organisation(name) ==
    /\ Len(created) < MaxOrganisations
    /\ LET r == organisations_repository_create_organisation(name, organisation) IN
       /\ organisation' = r.table
       /\ response' = Response("create_organisation", 200, [name |-> name], r.entity)
       /\ created' = Append(created, [name |-> name, id |-> r.entity.id])
    /\ UNCHANGED <<location, located>>

get_organisations ==
    /\ response' = Response("get_organisations", 200, <<>>,
                            organisations_repository_get_organisations(organisation))
    /\ UNCHANGED <<organisation, location, created, located>>

get_organisation(organisation_id) ==
    /\ LET found == organisations_repository_get_organisation_by_id(organisation_id, organisation) IN
       response' =
         IF ~found.present
         THEN Response("get_organisation", 404, [organisation_id |-> organisation_id],
                       [detail |-> "Organisation not found"])
         ELSE Response("get_organisation", 200, [organisation_id |-> organisation_id],
                       found.value)
    /\ UNCHANGED <<organisation, location, created, located>>

\* mutant: the organisation is looked up first and 404 raised when absent
create_location_Checked(organisation_id, location_name, longitude, latitude) ==
    /\ Len(located) < MaxLocations
    /\ LET found == organisations_repository_get_organisation_by_id(organisation_id, organisation)
           r == organisations_repository_create_location(
                    organisation_id, location_name, longitude, latitude, location)
           request == [organisation_id |-> organisation_id,
                       location_name |-> location_name,
                       longitude |-> longitude,
                       latitude |-> latitude] IN
       /\ location' = IF found.present THEN r.table ELSE location
       /\ response' = IF found.present
                      THEN Response("create_location", 200, request, r.entity)
                      ELSE Response("create_location", 404, request,
                                    [detail |-> "Organisation not found"])
       /\ located' = Append(located, request)
    /\ UNCHANGED <<organisation, created>>

create_location(organisation_id, location_name, longitude, latitude) ==
    /\ Len(located) < MaxLocations
    /\ LET r == organisations_repository_create_location(
                    organisation_id, location_name, longitude, latitude, location)
           request == [organisation_id |-> organisation_id,
                       location_name |-> location_name,
                       longitude |-> longitude,
                       latitude |-> latitude] IN
       /\ location' = r.table
       /\ response' = Response("create_location", 200, request, r.entity)
       /\ located' = Append(located, request)
    /\ UNCHANGED <<organisation, created>>

\* mutant: the organisation is looked up first and 404 raised when absent
get_organisation_locations_Checked(organisation_id, bounding_box) ==
    /\ LET found == organisations_repository_get_organisation_by_id(organisation_id, organisation)
           request == [organisation_id |-> organisation_id, bounding_box |-> bounding_box] IN
       response' =
         IF ~found.present
         THEN Response("get_organisation_locations", 404, request,
                       [detail |-> "Organisation not found"])
         ELSE Response("get_organisation_locations", 200, request,
                       organisations_repository_get_locations_by_organisation_id(
                           organisation_id, bounding_box, location))
    /\ UNCHANGED <<organisation, location, created, located>>

get_organisation_locations(organisation_id, bounding_box) ==
    /\ response' = Response("get_organisation_locations", 200,
                            [organisation_id |-> organisation_id,
                             bounding_box |-> bounding_box],
                            organisations_repository_get_locations_by_organisation_id(
                                organisation_id, bounding_box, location))
    /\ UNCHANGED <<organisation, location, created, located>>

\* ------------------------------------------------------------ specification
Init ==
    /\ organisation = <<>>
    /\ location = <<>>
    /\ response = Response("none", 0, <<>>, <<>>)
    /\ created = <<>>
    /\ located = <<>>

Next ==
    \/ \E name \in Names : create_organisation(name)
    \/ get_organisations
    \/ \E organisation_id \in PathIds : get_organisation(organisation_id)
    \/ \E organisation_id \in BodyIds, location_name \in LocationNames,
          point \in Points :
          create_location(organisation_id, location_name, point.longitude, point.latitude)
    \/ \E organisation_id \in PathIds, bounding_box \in BoundingBoxes :
          get_organisation_locations(organisation_id, bounding_box)

Spec == Init /\ [][Next]_vars

\* ------------------------------------------------------------------ helpers
Elems(seq) == {seq[i] : i \in DOMAIN seq}
Count(seq, x) == Cardinality({i \in DOMAIN seq : seq[i] = x})
\* the two sequences hold the same entries the same number of times
SameBag(s, t) ==
    /\ Len(s) = Len(t)
    /\ \A x \in Elems(s) \cup Elems(t) : Count(s, x) = Count(t, x)

\* ids issued by create-organisation calls so far
IssuedIds == {created[i].id : i \in DOMAIN created}

\* what the client expects of a locations-list, from its own log of
\* create-location requests
LoggedFor(organisation_id) ==
    SelectSeq(located, LAMBDA l : l.organisation_id = organisation_id)
Projected(log) ==
    [i \in DOMAIN log |->
        [location_name |-> log[i].location_name,
         location_longitude |-> log[i].longitude,
         location_latitude |-> log[i].latitude]]
LoggedInBox(organisation_id, box) ==
    SelectSeq(located, LAMBDA l :
        /\ l.organisation_id = organisation_id
        /\ box[1] <= l.latitude /\ l.latitude <= box[3]
        /\ box[2] <= l.longitude /\ l.longitude <= box[4])

\* ------------------------------------------------------------------- claims

\* C1: after create-organisation calls with names N1..Nk (duplicates allowed),
\* the list of organisations holds one entry per call, its names are exactly
\* the names given, and the ids are pairwise distinct.
C1_ListReturnsEveryCreate ==
    response.op = "get_organisations" =>
        /\ response.status_code = 200
        /\ Len(response.body) = Len(created)
        /\ SameBag([i \in DOMAIN response.body |-> response.body[i].name],
                   [i \in DOMAIN created |-> created[i].name])
        /\ \A i, j \in DOMAIN response.body :
              i # j => response.body[i].id # response.body[j].id

C1_Witness ==
    /\ response.op = "get_organisations"
    /\ Len(created) = 2
    /\ created[1].name = created[2].name

\* C2: get-organisation with an id a create call returned answers 200 with
\* the name given to that call; with an id never issued it answers 404 with
\* detail "Organisation not found" and no organisation.
C2_GetByIdOr404 ==
    response.op = "get_organisation" =>
        LET id == response.request.organisation_id IN
        IF id \in IssuedIds
        THEN /\ response.status_code = 200
             /\ response.body.id = id
             /\ \A i \in DOMAIN created :
                   created[i].id = id => response.body.name = created[i].name
        ELSE /\ response.status_code = 404
             /\ response.body = [detail |-> "Organisation not found"]

C2_Witness ==
    /\ response.op = "get_organisation"
    /\ response.status_code = 404
    /\ Len(created) = 2
    /\ response.request.organisation_id \notin IssuedIds

\* C3: with no bounding box, the locations-list for O holds exactly one entry
\* per location created with organisation_id = O, and each entry carries
\* only the name, longitude and latitude.
C3_ListLocationsExact ==
    (response.op = "get_organisation_locations" /\ ~response.request.bounding_box.present) =>
        /\ SameBag(response.body, Projected(LoggedFor(response.request.organisation_id)))
        /\ \A i \in DOMAIN response.body :
              DOMAIN response.body[i] =
                  {"location_name", "location_longitude", "location_latitude"}

C3_Witness ==
    /\ response.op = "get_organisation_locations"
    /\ ~response.request.bounding_box.present
    /\ Len(response.body) = 1
    /\ Len(located) = 2

\* C4: with a bounding box (min_lat, min_lon, max_lat, max_lon), all-zero
\* boxes included, the locations-list for O holds exactly the locations of O
\* with min_lat <= latitude <= max_lat and min_lon <= longitude <= max_lon.
C4_BoundingBoxInclusive ==
    (response.op = "get_organisation_locations" /\ response.request.bounding_box.present) =>
        SameBag(response.body,
                Projected(LoggedInBox(response.request.organisation_id,
                                      response.request.bounding_box.value)))

C4_Witness ==
    /\ response.op = "get_organisation_locations"
    /\ response.request.bounding_box = Some(<<0, 0, 0, 0>>)
    /\ Len(response.body) = 1
    /\ Len(LoggedFor(response.request.organisation_id)) = 2

\* C5: a location created with organisation_id = A never appears in the
\* locations-list for another organisation B, with or without a bounding
\* box: every entry listed for B is accounted for by B's own locations.
C5_Isolation ==
    response.op = "get_organisation_locations" =>
        LET own == Projected(LoggedFor(response.request.organisation_id)) IN
        \A x \in Elems(response.body) : Count(response.body, x) <= Count(own, x)

C5_Witness ==
    /\ response.op = "get_organisation_locations"
    /\ Len(response.body) = 1
    /\ \E i \in DOMAIN located :
          located[i].organisation_id # response.request.organisation_id

\* C6: two create-organisation calls with the same name produce two distinct
\* rows with two distinct ids, and both are listed.
C6_CreatesNotDeduplicated ==
    \A i, j \in DOMAIN created :
        (i # j /\ created[i].name = created[j].name) =>
            /\ created[i].id # created[j].id
            /\ LET listed == organisations_repository_get_organisations(organisation) IN
               \E p, q \in DOMAIN listed :
                  /\ p # q
                  /\ listed[p] = [id |-> created[i].id, name |-> created[i].name]
                  /\ listed[q] = [id |-> created[j].id, name |-> created[j].name]

C6_Witness ==
    /\ response.op = "create_organisation"
    /\ Len(created) = 2
    /\ created[1].name = created[2].name
    /\ Len(location) > 0

\* C7: the create-location response carries exactly the supplied
\* organisation_id, location_name, longitude and latitude with a generated
\* id, and every later locations-list for that organisation without a
\* bounding box holds an entry with the same name, longitude and latitude.
C7_CreateLocationRoundTrip ==
    /\ response.op = "create_location" =>
          /\ response.status_code = 200
          /\ DOMAIN response.body =
                {"id", "organisation_id", "location_name", "longitude", "latitude"}
          /\ response.body.id \in Nat \ {0}
          /\ response.body.organisation_id = response.request.organisation_id
          /\ response.body.location_name = response.request.location_name
          /\ response.body.longitude = response.request.longitude
          /\ response.body.latitude = response.request.latitude
    /\ (response.op = "get_organisation_locations" /\ ~response.request.bounding_box.present) =>
          \A i \in DOMAIN located :
              located[i].organisation_id = response.request.organisation_id =>
                  [location_name |-> located[i].location_name,
                   location_longitude |-> located[i].longitude,
                   location_latitude |-> located[i].latitude] \in Elems(response.body)

C7_Witness ==
    /\ response.op = "create_location"
    /\ response.request.longitude # response.request.latitude
    /\ Len(located) = 2

\* C8: the locations-list never answers not-found: for an id that matches no
\* organisation and has no locations it answers 200 with an empty sequence,
\* whereas get-organisation for such an id answers 404.
C8_ListLocationsNever404 ==
    /\ response.op = "get_organisation_locations" =>
          /\ response.status_code = 200
          /\ (/\ response.request.organisation_id \notin IssuedIds
              /\ LoggedFor(response.request.organisation_id) = <<>>)
                 => response.body = <<>>
    /\ (response.op = "get_organisation"
            /\ response.request.organisation_id \notin IssuedIds) =>
          response.status_code = 404

C8_Witness ==
    /\ response.op = "get_organisation_locations"
    /\ response.request.organisation_id \notin IssuedIds
    /\ LoggedFor(response.request.organisation_id) = <<>>
    /\ Len(created) > 0
    /\ Len(located) > 0

\* C9: create-location checks no organisation: with an organisation_id no
\* create-organisation call issued, it answers 200, inserts the location and
\* returns it, and the locations-list for that id then returns it.
C9_CreateLocationUnchecked ==
    /\ (response.op = "create_location"
            /\ response.request.organisation_id \notin IssuedIds) =>
          /\ response.status_code = 200
          /\ response.body \in Elems(location)
          /\ response.body.organisation_id = response.request.organisation_id
    /\ (response.op = "get_organisation_locations"
            /\ ~response.request.bounding_box.present
            /\ response.request.organisation_id \notin IssuedIds) =>
          /\ response.status_code = 200
          /\ Len(response.body) = Len(LoggedFor(response.request.organisation_id))
          /\ \A x \in Elems(Projected(LoggedFor(response.request.organisation_id))) :
                x \in Elems(response.body)

C9_Witness ==
    /\ response.op = "get_organisation_locations"
    /\ ~response.request.bounding_box.present
    /\ response.request.organisation_id \notin IssuedIds
    /\ Len(response.body) > 0
    /\ \E i \in DOMAIN location :
          /\ location[i].organisation_id = response.request.organisation_id
          /\ \A j \in DOMAIN organisation :
                organisation[j].id # location[i].organisation_id

\* C10: no operation updates or deletes a row: the three reads leave both
\* tables unchanged; create-organisation appends exactly one organisation row
\* and leaves the others and the location table unchanged; create-location
\* appends exactly one location row and leaves the others and the
\* organisation table unchanged.
IsPrefixPlusOne(old, new) ==
    /\ Len(new) = Len(old) + 1
    /\ \A i \in DOMAIN old : new[i] = old[i]

C10_Step ==
    /\ response'.op \in {"get_organisations", "get_organisation", "get_organisation_locations"} =>
          /\ organisation' = organisation
          /\ location' = location
    /\ response'.op = "create_organisation" =>
          /\ IsPrefixPlusOne(organisation, organisation')
          /\ location' = location
    /\ response'.op = "create_location" =>
          /\ IsPrefixPlusOne(location, location')
          /\ organisation' = organisation

C10_NoUpdateNoDelete == [][C10_Step]_vars

C10_Witness ==
    /\ response.op = "get_organisation"
    /\ response.status_code = 404
    /\ Len(organisation) = 2
    /\ Len(location) = 2

====
